---- MODULE Spec2Model ----
(***************************************************************************)
(* A model of MicropyGPS (src/micropyGPS.py): the per-character NMEA       *)
(* framer / checksum validator (update), the six field decoders and the    *)
(* navigation state they write.                                            *)
(*                                                                         *)
(* Characters are their character codes (ord), strings are sequences of    *)
(* codes.  A Python float is the exact decimal <<m, d>> = m / 10^d in      *)
(* lowest terms (d = 0, or m not a multiple of 10).  None is <<>> and an   *)
(* optional integer v is <<v>>.                                            *)
(*                                                                         *)
(* A value the code computes once and reads several times is the           *)
(* parameter of the operator that models the code reading it.              *)
(***************************************************************************)
EXTENDS Integers, Sequences, FiniteSets, TLC

----------------------------------------------------------------------------
(* Characters *)

\* The printable ASCII characters, code 32 first (the double quote and the
\* backtick are spelled out).
Ascii ==
    << " ", "!", "QUOTE", "#", "$", "%", "&", "'", "(", ")", "*", "+", ",", "-", ".", "/",
       "0", "1", "2", "3", "4", "5", "6", "7", "8", "9", ":", ";", "<", "=", ">", "?",
       "@", "A", "B", "C", "D", "E", "F", "G", "H", "I", "J", "K", "L", "M", "N", "O",
       "P", "Q", "R", "S", "T", "U", "V", "W", "X", "Y", "Z", "[", "\\", "]", "^", "_",
       "BACKTICK", "a", "b", "c", "d", "e", "f", "g", "h", "i", "j", "k", "l", "m", "n", "o",
       "p", "q", "r", "s", "t", "u", "v", "w", "x", "y", "z", "{", "|", "}", "~" >>

\* ord(c) of a printable character
Ord(c) == 31 + (CHOOSE i \in 1..Len(Ascii) : Ascii[i] = c)

\* The string whose characters are cs, as a sequence of codes
S(cs) == [i \in 1..Len(cs) |-> Ord(cs[i])]

\* ord('$'), ord('*'), ord(',')
DOLLAR == 36
STAR == 42
COMMA == 44
\* the codes of ' ', '.', '+', '-', '_', '0', '9', 'A', 'Z', 'a', 'z'
SPACE == 32
POINT == 46
PLUS == 43
MINUS == 45
UNDERSCORE == 95
ZERO == 48
NINE == 57
UPPER_A == 65
UPPER_Z == 90
LOWER_A == 97
LOWER_Z == 122

Digits == ZERO..NINE

\* value of a letter or digit as a digit, 36 when it is neither
DigitOf(c) ==
    IF c \in Digits THEN c - ZERO
    ELSE IF c >= LOWER_A /\ c <= LOWER_Z THEN c - LOWER_A + 10
    ELSE IF c >= UPPER_A /\ c <= UPPER_Z THEN c - UPPER_A + 10
    ELSE 36

\* value of a digit character in the given base, -1 when it is not one
DigitVal(c, base) == IF DigitOf(c) < base THEN DigitOf(c) ELSE -1

\* bit i of a and b differs: 1, else 0
XorBit(a, b, w) == (((a \div w) % 2) + ((b \div w) % 2)) % 2

\* a ^ b on character codes and checksums, 8 bits wide
Xor(a, b) ==
    XorBit(a, b, 1) + 2 * XorBit(a, b, 2) + 4 * XorBit(a, b, 4) + 8 * XorBit(a, b, 8)
    + 16 * XorBit(a, b, 16) + 32 * XorBit(a, b, 32) + 64 * XorBit(a, b, 64)
    + 128 * XorBit(a, b, 128)

----------------------------------------------------------------------------
(* Python string and number primitives used by the decoders *)

Min(a, b) == IF a < b THEN a ELSE b

\* s[a:b] for 0 <= a <= b
Slice(s, a, b) == IF a >= Len(s) THEN <<>> ELSE SubSeq(s, a + 1, Min(b, Len(s)))

\* s[a:]
SliceFrom(s, a) == Slice(s, a, Len(s))

RECURSIVE Pow10(_)
Pow10(n) == IF n = 0 THEN 1 ELSE 10 * Pow10(n - 1)

\* str.strip() as int() and float() apply it; of the accepted codes 20..126
\* only the space is white space
RECURSIVE Strip(_)
Strip(s) ==
    IF s = <<>> THEN s
    ELSE IF Head(s) = SPACE THEN Strip(Tail(s))
    ELSE IF s[Len(s)] = SPACE THEN Strip(SubSeq(s, 1, Len(s) - 1))
    ELSE s

\* digits with single underscores between them
IsDigitString(s, base) ==
    /\ s # <<>>
    /\ DigitVal(s[1], base) >= 0
    /\ DigitVal(s[Len(s)], base) >= 0
    /\ \A i \in 1..Len(s) : DigitVal(s[i], base) >= 0 \/ s[i] = UNDERSCORE
    /\ \A i \in 1..(Len(s) - 1) : ~(s[i] = UNDERSCORE /\ s[i + 1] = UNDERSCORE)

RECURSIVE DigitsValue(_, _)
DigitsValue(s, base) ==
    IF s = <<>> THEN 0
    ELSE IF s[Len(s)] = UNDERSCORE THEN DigitsValue(SubSeq(s, 1, Len(s) - 1), base)
    ELSE DigitsValue(SubSeq(s, 1, Len(s) - 1), base) * base + DigitVal(s[Len(s)], base)

ValueError == [ok |-> FALSE, v |-> 0]

Signed(s) == s # <<>> /\ Head(s) \in {PLUS, MINUS}

\* the literal t without its sign
Unsigned(t) == IF Signed(t) THEN Tail(t) ELSE t

\* -1 for a literal with a minus sign, else 1
SignOf(t) == IF Signed(t) /\ Head(t) = MINUS THEN 0 - 1 ELSE 1

\* int() of the stripped literal t
IntLiteral(t, base) ==
    IF IsDigitString(Unsigned(t), base)
    THEN [ok |-> TRUE, v |-> SignOf(t) * DigitsValue(Unsigned(t), base)]
    ELSE ValueError

\* int(s, base) for base 10 and for the two-character checksum field in
\* base 16: [ok |-> TRUE, v |-> value], or ValueError
ParseInt(s, base) == IntLiteral(Strip(s), base)

\* the decimal m / 10^d in lowest terms
RECURSIVE Norm(_, _)
Norm(m, d) == IF d > 0 /\ (m % 10) = 0 THEN Norm(m \div 10, d - 1) ELSE <<m, d>>

Float0 == <<0, 0>>

\* a >= b on decimals
FloatGE(a, b) == a[1] * Pow10(b[2]) >= b[1] * Pow10(a[2])

\* the position of the first '.' of body, Len(body) + 1 when it has none
PointOf(body) ==
    IF \E i \in 1..Len(body) : body[i] = POINT
    THEN CHOOSE i \in 1..Len(body) : body[i] = POINT /\ \A j \in 1..(i - 1) : body[j] # POINT
    ELSE Len(body) + 1

\* the number of digits of frac
NDigits(frac) == Cardinality({i \in 1..Len(frac) : frac[i] \in Digits})

\* the float of sign sign, digits whole before the point and frac after it
FloatOf(sign, whole, frac) ==
    IF /\ whole = <<>> \/ IsDigitString(whole, 10)
       /\ frac = <<>> \/ IsDigitString(frac, 10)
       /\ whole # <<>> \/ frac # <<>>
    THEN [ok |-> TRUE,
          v  |-> Norm(sign * (DigitsValue(whole, 10) * Pow10(NDigits(frac))
                              + DigitsValue(frac, 10)),
                      NDigits(frac))]
    ELSE [ok |-> FALSE, v |-> Float0]

\* the float of the unsigned literal body, whose first point is at p
FloatAt(sign, body, p) == FloatOf(sign, SubSeq(body, 1, p - 1), SubSeq(body, p + 1, Len(body)))

\* float() of the stripped literal t
FloatLiteral(t) == FloatAt(SignOf(t), Unsigned(t), PointOf(Unsigned(t)))

\* float(s) for fixed-point literals: [sign] digits [. digits], one side of
\* the point may be empty
ParseFloat(s) == FloatLiteral(Strip(s))

\* float(s) if s else 0.0
FloatOrZero(s) == IF s # <<>> THEN ParseFloat(s) ELSE [ok |-> TRUE, v |-> Float0]

----------------------------------------------------------------------------
(* Class constants *)

SENTENCE_LIMIT == 90
HEMISPHERES == {S(<<"N">>), S(<<"S">>), S(<<"E">>), S(<<"W">>)}
NO_FIX == 1
CLEAR_DATE == <<0, 0, 0>>
CLEAR_TIME == <<0, 0, Float0>>
CLEAR_LAT == <<0, Float0, S(<<"N">>)>>
CLEAR_LON == <<0, Float0, S(<<"W">>)>>

\* the data valid flag of RMC and GLL
DATA_VALID == S(<<"A">>)

None == <<>>
Some(v) == <<v>>

\* the data registers set up by __init__ ("Data From Sentences" and "GPS
\* Info"), with fix_time
InitNav ==
    [ timestamp |-> CLEAR_TIME, date |-> CLEAR_DATE,
      latitude |-> CLEAR_LAT, longitude |-> CLEAR_LON,
      speed |-> Float0, course |-> Float0,
      altitude |-> Float0, geoid_height |-> Float0,
      satellites_in_view |-> 0, satellites_in_use |-> 0, satellites_used |-> <<>>,
      last_sv_sentence |-> 0, total_sv_sentences |-> 0, satellite_data |-> <<>>,
      hdop |-> Float0, pdop |-> Float0, vdop |-> Float0,
      valid |-> FALSE, fix_stat |-> 0, fix_type |-> 1, fix_time |-> 0 ]

----------------------------------------------------------------------------
(* Sentence parsers.  Each takes the navigation state n and the segments   *)
(* g of the sentence and yields [res, nav]: res is "True" or "False", the  *)
(* decoder's return value, or "IndexError" when it raises; nav is the      *)
(* navigation state it leaves behind.                                      *)

\* g[i] exists
Has(g, i) == i < Len(g)
\* g[i], the segments being numbered from 0
Seg(g, i) == g[i + 1]

Ret(res, n) == [res |-> res, nav |-> n]

\* a helper returned True, or False: [ok, nav]
Done(n) == [ok |-> TRUE, nav |-> n]
Failed(n) == [ok |-> FALSE, nav |-> n]

\* __parse_time once hours (before the offset), minutes and seconds are
\* converted
time_stamp(n, hours, minutes, seconds, local_offset) ==
    IF ~hours.ok \/ ~minutes.ok \/ ~seconds.ok THEN Failed(n)
    ELSE IF FloatGE(seconds.v, <<60, 0>>) \/ minutes.v >= 60 THEN Failed(n)
    ELSE Done([n EXCEPT !.timestamp =
                 <<(hours.v + local_offset) % 24, minutes.v, seconds.v>>])

parse_time(n, utc_string, local_offset) ==
    IF utc_string # <<>>
    THEN time_stamp(n, ParseInt(Slice(utc_string, 0, 2), 10),
                    ParseInt(Slice(utc_string, 2, 4), 10),
                    ParseFloat(SliceFrom(utc_string, 4)), local_offset)
    ELSE Done([n EXCEPT !.timestamp = CLEAR_TIME])

\* __parse_lat_lon once degrees and minutes are converted
lat_lon(n, lat_hemi, lat_degs, lat_mins, lon_hemi, lon_degs, lon_mins) ==
    IF lat_hemi \notin HEMISPHERES THEN Failed(n)
    ELSE IF ~lat_degs.ok \/ ~lat_mins.ok THEN Failed(n)
    ELSE IF lon_hemi \notin HEMISPHERES THEN Failed(n)
    ELSE IF ~lon_degs.ok \/ ~lon_mins.ok THEN Failed(n)
    ELSE Done([n EXCEPT !.latitude = <<lat_degs.v, lat_mins.v, lat_hemi>>,
                        !.longitude = <<lon_degs.v, lon_mins.v, lon_hemi>>])

\* lat and lon are the pairs <<digits, hemisphere>>
parse_lat_lon(n, lat, lon) ==
    lat_lon(n, lat[2], ParseInt(Slice(lat[1], 0, 2), 10), ParseFloat(SliceFrom(lat[1], 2)),
            lon[2], ParseInt(Slice(lon[1], 0, 3), 10), ParseFloat(SliceFrom(lon[1], 3)))

\* self.date = (day, month, year)
date_stamp(n, day, month, year) ==
    IF ~day.ok \/ ~month.ok \/ ~year.ok THEN Failed(n)
    ELSE Done([n EXCEPT !.date = <<day.v, month.v, year.v>>])

\* the date stamp of RMC: [ok, nav]
rmc_date(n, g) ==
    IF ~Has(g, 9) THEN Failed(n)
    ELSE IF Seg(g, 9) = <<>> THEN Done([n EXCEPT !.date = CLEAR_DATE])
    ELSE date_stamp(n, ParseInt(Slice(Seg(g, 9), 0, 2), 10),
                    ParseInt(Slice(Seg(g, 9), 2, 4), 10),
                    ParseInt(Slice(Seg(g, 9), 4, 6), 10))

\* speed and course of RMC, then "Update Object Data"
rmc_motion(n, spd_knt, course, now) ==
    IF ~spd_knt.ok THEN Ret("False", n)
    ELSE IF ~course.ok THEN Ret("False", n)
    ELSE Ret("True", [n EXCEPT !.speed = spd_knt.v, !.course = course.v,
                               !.valid = TRUE, !.fix_time = now])

\* RMC after __parse_lat_lon returned p
rmc_position(p, g, now) ==
    IF ~p.ok THEN Ret("False", p.nav)
    ELSE rmc_motion(p.nav, ParseFloat(Seg(g, 7)), FloatOrZero(Seg(g, 8)), now)

\* the branch of RMC for a sentence whose data valid flag is 'A'
rmc_fix(n, g, now) ==
    rmc_position(parse_lat_lon(n, <<Seg(g, 3), Seg(g, 4)>>, <<Seg(g, 5), Seg(g, 6)>>), g, now)

\* an else branch of RMC that clears the position alone
rmc_clear_position(n) ==
    [n EXCEPT !.latitude = CLEAR_LAT, !.longitude = CLEAR_LON, !.valid = FALSE]

\* the else branch of RMC: the sentence is 'Invalid'
rmc_clear(n) ==
    [n EXCEPT !.latitude = CLEAR_LAT, !.longitude = CLEAR_LON,
              !.speed = Float0, !.course = Float0, !.valid = FALSE]

\* RMC after the date stamp gave d: "Check Receiver Data Valid Flag"
rmc_flag(d, g, now) ==
    IF ~d.ok THEN Ret("False", d.nav)
    ELSE IF Seg(g, 2) = DATA_VALID THEN rmc_fix(d.nav, g, now)
    ELSE Ret("True", rmc_clear(d.nav))

\* RMC after __parse_time returned t
rmc_timed(t, g, now) ==
    IF ~t.ok THEN Ret("False", t.nav) ELSE rmc_flag(rmc_date(t.nav, g), g, now)

gprmc(n, g, local_offset, now) ==
    IF ~Has(g, 1) THEN Ret("False", n)
    ELSE rmc_timed(parse_time(n, Seg(g, 1), local_offset), g, now)

\* the else branch of GLL
gll_clear(n) ==
    [n EXCEPT !.latitude = CLEAR_LAT, !.longitude = CLEAR_LON, !.valid = FALSE]

\* the branch of GLL for the flag 'A', after __parse_lat_lon returned p
gll_fix(p, now) ==
    IF ~p.ok THEN Ret("False", p.nav)
    ELSE Ret("True", [p.nav EXCEPT !.valid = TRUE, !.fix_time = now])

\* GLL after __parse_time returned t
gll_timed(t, g, now) ==
    IF ~t.ok THEN Ret("False", t.nav)
    ELSE IF ~Has(g, 6) THEN Ret("IndexError", t.nav)
    ELSE IF Seg(g, 6) = DATA_VALID
    THEN gll_fix(parse_lat_lon(t.nav, <<Seg(g, 1), Seg(g, 2)>>, <<Seg(g, 3), Seg(g, 4)>>), now)
    ELSE Ret("True", gll_clear(t.nav))

gpgll(n, g, local_offset, now) ==
    IF ~Has(g, 5) THEN Ret("False", n)
    ELSE gll_timed(parse_time(n, Seg(g, 5), local_offset), g, now)

\* VTG once course and speed are converted
vtg_motion(n, course, spd_knt) ==
    IF ~course.ok \/ ~spd_knt.ok THEN Ret("False", n)
    ELSE Ret("True", [n EXCEPT !.speed = spd_knt.v, !.course = course.v])

gpvtg(n, g) ==
    IF ~Has(g, 1) \/ ~Has(g, 5) THEN Ret("False", n)
    ELSE vtg_motion(n, FloatOrZero(Seg(g, 1)), FloatOrZero(Seg(g, 5)))

gga_heights_swapped(n, altitude, geoid_height) ==
    Ret("True", [n EXCEPT !.altitude = geoid_height, !.geoid_height = altitude])

\* altitude and geoid_height of GGA as they are assigned
gga_heights(n, altitude, geoid_height) ==
    Ret("True", [n EXCEPT !.altitude = altitude, !.geoid_height = geoid_height])

\* "Altitude / Height Above Geoid", altitude being float(g[9])
gga_altitude(n, g, altitude) ==
    IF ~altitude.ok THEN gga_heights(n, Float0, Float0)
    ELSE IF ~Has(g, 11) THEN Ret("IndexError", n)
    ELSE IF ~ParseFloat(Seg(g, 11)).ok THEN gga_heights(n, Float0, Float0)
    ELSE gga_heights(n, altitude.v, ParseFloat(Seg(g, 11)).v)

\* GGA with a fix, after __parse_lat_lon returned p
gga_position(p, g) ==
    IF ~p.ok THEN Ret("False", p.nav)
    ELSE IF ~Has(g, 9) THEN Ret("IndexError", p.nav)
    ELSE gga_altitude(p.nav, g, ParseFloat(Seg(g, 9)))

\* the branch of GGA for a nonzero fix status: position, altitude and
\* height above the geoid
gga_fix(n, g) ==
    gga_position(parse_lat_lon(n, <<Seg(g, 2), Seg(g, 3)>>, <<Seg(g, 4), Seg(g, 5)>>), g)

\* float(g[8]), 0.0 on ValueError and IndexError
gga_hdop(g) ==
    IF Has(g, 8) /\ ParseFloat(Seg(g, 8)).ok THEN ParseFloat(Seg(g, 8)).v ELSE Float0

gga_commit_validates(f, satellites_in_use, hdop, fix_stat, now) ==
    IF f.res # "True" THEN f
    ELSE Ret("True", [f.nav EXCEPT !.satellites_in_use = satellites_in_use,
                                   !.hdop = hdop,
                                   !.fix_stat = fix_stat,
                                   !.valid = fix_stat # 0,
                                   !.fix_time = IF fix_stat # 0 THEN now ELSE @])

\* the second "Update Object Data" of GGA, f being what the fix branch left
gga_commit(f, satellites_in_use, hdop, fix_stat, now) ==
    IF f.res # "True" THEN f
    ELSE Ret("True", [f.nav EXCEPT !.satellites_in_use = satellites_in_use,
                                   !.hdop = hdop,
                                   !.fix_stat = fix_stat,
                                   !.fix_time = IF fix_stat # 0 THEN now ELSE @])

\* GGA once the satellites in use and the fix status are converted
gga_status(n, g, satellites_in_use, fix_stat, now) ==
    IF ~satellites_in_use.ok \/ ~fix_stat.ok THEN Ret("False", n)
    ELSE gga_commit(IF fix_stat.v # 0 THEN gga_fix(n, g) ELSE Ret("True", n),
                    satellites_in_use.v, gga_hdop(g), fix_stat.v, now)

\* GGA after __parse_time returned t
gga_timed(t, g, now) ==
    IF ~t.ok THEN Ret("False", t.nav)
    ELSE IF ~Has(g, 7) THEN Ret("False", t.nav)
    ELSE gga_status(t.nav, g, ParseInt(Seg(g, 7), 10), ParseInt(Seg(g, 6), 10), now)

gpgga(n, g, local_offset, now) ==
    IF ~Has(g, 1) THEN Ret("False", n)
    ELSE gga_timed(parse_time(n, Seg(g, 1), local_offset), g, now)

\* the PRN sat_number of GSA is appended, or the loop returns False
RECURSIVE gsa_sats(_, _, _)
gsa_sat(g, sats, sats_used, sat_number) ==
    IF ~sat_number.ok THEN [res |-> "False", sats_used |-> sats_used]
    ELSE gsa_sats(g, sats + 1, Append(sats_used, sat_number.v))

\* the loop of GSA over the PRN fields 3 + sats, sats in range(12);
\* [res, sats_used], res being "done", "False" or "IndexError"
gsa_sats(g, sats, sats_used) ==
    IF sats >= 12 THEN [res |-> "done", sats_used |-> sats_used]
    ELSE IF ~Has(g, 3 + sats) THEN [res |-> "IndexError", sats_used |-> sats_used]
    ELSE IF Seg(g, 3 + sats) = <<>> THEN [res |-> "done", sats_used |-> sats_used]
    ELSE gsa_sat(g, sats, sats_used, ParseInt(Seg(g, 3 + sats), 10))

gsa_dops_extends(n, g, fix_type, sats_used, pdop, hdop, vdop, now) ==
    IF ~Has(g, 15) THEN Ret("IndexError", n)
    ELSE IF ~pdop.ok THEN Ret("False", n)
    ELSE IF ~Has(g, 16) THEN Ret("IndexError", n)
    ELSE IF ~hdop.ok THEN Ret("False", n)
    ELSE IF ~Has(g, 17) THEN Ret("IndexError", n)
    ELSE IF ~vdop.ok THEN Ret("False", n)
    ELSE Ret("True", [n EXCEPT !.fix_type = fix_type,
                               !.fix_time = IF fix_type > NO_FIX THEN now ELSE @,
                               !.satellites_used = @ \o sats_used,
                               !.hdop = hdop.v, !.vdop = vdop.v, !.pdop = pdop.v])

\* "PDOP,HDOP,VDOP" and "Update Object Data" of GSA
gsa_dops(n, g, fix_type, sats_used, pdop, hdop, vdop, now) ==
    IF ~Has(g, 15) THEN Ret("IndexError", n)
    ELSE IF ~pdop.ok THEN Ret("False", n)
    ELSE IF ~Has(g, 16) THEN Ret("IndexError", n)
    ELSE IF ~hdop.ok THEN Ret("False", n)
    ELSE IF ~Has(g, 17) THEN Ret("IndexError", n)
    ELSE IF ~vdop.ok THEN Ret("False", n)
    ELSE Ret("True", [n EXCEPT !.fix_type = fix_type,
                               !.fix_time = IF fix_type > NO_FIX THEN now ELSE @,
                               !.satellites_used = sats_used,
                               !.hdop = hdop.v, !.vdop = vdop.v, !.pdop = pdop.v])

\* GSA after the loop over the PRN fields gave l
gsa_used(n, g, fix_type, l, now) ==
    IF l.res # "done" THEN Ret(l.res, n)
    ELSE gsa_dops(n, g, fix_type, l.sats_used, ParseFloat(Seg(g, 15)),
                  ParseFloat(Seg(g, 16)), ParseFloat(Seg(g, 17)), now)

\* GSA once the fix type is converted
gsa_type(n, g, fix_type, now) ==
    IF ~fix_type.ok THEN Ret("False", n)
    ELSE gsa_used(n, g, fix_type.v, gsa_sats(g, 0, <<>>), now)

gpgsa(n, g, now) ==
    IF ~Has(g, 2) THEN Ret("IndexError", n)
    ELSE gsa_type(n, g, ParseInt(Seg(g, 2), 10), now)

\* the optional integer of a conversion
Optional(r) == IF r.ok THEN Some(r.v) ELSE None

\* int(g[i]) of an optional GSV field: None on ValueError and IndexError
OptInt(g, i) == IF Has(g, i) THEN Optional(ParseInt(Seg(g, i), 10)) ELSE None

\* dict d with d[k] = v
DictSet(d, k, v) == [x \in DOMAIN d \cup {k} |-> IF x = k THEN v ELSE d[x]]

\* dict a after a.update(b)
DictUpdate(a, b) == [x \in DOMAIN a \cup DOMAIN b |-> IF x \in DOMAIN b THEN b[x] ELSE a[x]]

\* number of segment positions of the sentence that GSV reads up to
sat_segment_limit(num_sv_sentences, current_sv_sentence, sats_in_view) ==
    IF num_sv_sentences = current_sv_sentence
    THEN (sats_in_view - ((num_sv_sentences - 1) * 4)) * 5
    ELSE 20

\* the satellite sat_id of GSV is added, or the loop returns False
RECURSIVE gsv_blocks(_, _, _, _)
gsv_block(g, sats, limit, satellite_dict, sat_id) ==
    IF ~sat_id.ok THEN [ok |-> FALSE, dict |-> satellite_dict]
    ELSE gsv_blocks(g, sats + 4, limit,
                    DictSet(satellite_dict, sat_id.v,
                            <<OptInt(g, sats + 1), OptInt(g, sats + 2), OptInt(g, sats + 3)>>))

\* the loop of GSV, for sats in range(4, limit, 4), from position sats on;
\* [ok, dict], ok FALSE when the loop returns False
gsv_blocks(g, sats, limit, satellite_dict) ==
    IF sats >= limit THEN [ok |-> TRUE, dict |-> satellite_dict]
    ELSE IF ~Has(g, sats) THEN [ok |-> FALSE, dict |-> satellite_dict]
    ELSE IF Seg(g, sats) = <<>> THEN [ok |-> TRUE, dict |-> satellite_dict]
    ELSE gsv_block(g, sats, limit, satellite_dict, ParseInt(Seg(g, sats), 10))

gsv_commit_merges(n, num_sv_sentences, current_sv_sentence, sats_in_view, l) ==
    IF ~l.ok THEN Ret("False", n)
    ELSE Ret("True", [n EXCEPT !.total_sv_sentences = num_sv_sentences,
                               !.last_sv_sentence = current_sv_sentence,
                               !.satellites_in_view = sats_in_view,
                               !.satellite_data = DictUpdate(@, l.dict)])

\* "Update Object Data" of GSV, l being what the loop gave
gsv_commit(n, num_sv_sentences, current_sv_sentence, sats_in_view, l) ==
    IF ~l.ok THEN Ret("False", n)
    ELSE Ret("True", [n EXCEPT !.total_sv_sentences = num_sv_sentences,
                               !.last_sv_sentence = current_sv_sentence,
                               !.satellites_in_view = sats_in_view,
                               !.satellite_data =
                                   IF current_sv_sentence = 1 THEN l.dict
                                   ELSE DictUpdate(@, l.dict)])

\* GSV once its three counts are converted
gsv_counts(n, g, num_sv_sentences, current_sv_sentence, sats_in_view) ==
    IF ~Has(g, 1) THEN Ret("IndexError", n)
    ELSE IF ~num_sv_sentences.ok THEN Ret("False", n)
    ELSE IF ~Has(g, 2) THEN Ret("IndexError", n)
    ELSE IF ~current_sv_sentence.ok THEN Ret("False", n)
    ELSE IF ~Has(g, 3) THEN Ret("IndexError", n)
    ELSE IF ~sats_in_view.ok THEN Ret("False", n)
    ELSE gsv_commit(n, num_sv_sentences.v, current_sv_sentence.v, sats_in_view.v,
                    gsv_blocks(g, 4,
                               sat_segment_limit(num_sv_sentences.v, current_sv_sentence.v,
                                                 sats_in_view.v),
                               <<>>))

gpgsv(n, g) ==
    gsv_counts(n, g, ParseInt(Seg(g, 1), 10), ParseInt(Seg(g, 2), 10), ParseInt(Seg(g, 3), 10))

\* satellite_data_updated() of the navigation state n
satellite_data_updated(n) ==
    n.total_sv_sentences > 0 /\ n.total_sv_sentences = n.last_sv_sentence

\* supported_sentences: the decoder a sentence identifier maps to, "" when
\* the identifier is not supported
Decoder(id) ==
    IF id \in {S(<<"G","P","R","M","C">>), S(<<"G","L","R","M","C">>), S(<<"G","N","R","M","C">>)}
    THEN "gprmc"
    ELSE IF id \in {S(<<"G","P","G","G","A">>), S(<<"G","L","G","G","A">>), S(<<"G","N","G","G","A">>)}
    THEN "gpgga"
    ELSE IF id \in {S(<<"G","P","V","T","G">>), S(<<"G","L","V","T","G">>), S(<<"G","N","V","T","G">>)}
    THEN "gpvtg"
    ELSE IF id \in {S(<<"G","P","G","S","A">>), S(<<"G","L","G","S","A">>), S(<<"G","N","G","S","A">>)}
    THEN "gpgsa"
    ELSE IF id \in {S(<<"G","P","G","S","V">>), S(<<"G","L","G","S","V">>)}
    THEN "gpgsv"
    ELSE IF id \in {S(<<"G","P","G","L","L">>), S(<<"G","L","G","L","L">>), S(<<"G","N","G","L","L">>)}
    THEN "gpgll"
    ELSE ""

\* the decoder named decoder is called
Call(decoder, n, g, local_offset, now) ==
    CASE decoder = "gprmc" -> gprmc(n, g, local_offset, now)
      [] decoder = "gpgga" -> gpgga(n, g, local_offset, now)
      [] decoder = "gpvtg" -> gpvtg(n, g)
      [] decoder = "gpgsa" -> gpgsa(n, g, now)
      [] decoder = "gpgsv" -> gpgsv(n, g)
      [] decoder = "gpgll" -> gpgll(n, g, local_offset, now)

\* self.supported_sentences[gps_segments[0]](self)
Dispatch(n, g, local_offset, now) == Call(Decoder(g[1]), n, g, local_offset, now)

----------------------------------------------------------------------------
(* Data stream handler *)

VARIABLES
    sentence_active,    \* object status flags
    active_segment,
    process_crc,
    gps_segments,
    crc_xor,
    char_count,
    buf,                \* __buf, the characters of the segment being received
    crc_fails,          \* sentence statistics
    clean_sentences,
    parsed_sentences,
    nav,                \* data from sentences
    local_offset,       \* constructor argument
    clock,              \* number of ticks get_ticks() has counted
    new_char,           \* <<c>>, c the argument of the last update() call
    ret,                \* outcome of the last update() call: [exc, val]
    sent,               \* sentences the receiver has started
    cur,                \* the sentence it is sending (index in Sentences), 0 when
                        \* it has sent none or just the '$' of one
    pos,                \* characters of that sentence fed so far
    junk                \* accepted characters fed after them

framing == <<sentence_active, active_segment, process_crc, gps_segments, crc_xor, buf>>
stats == <<crc_fails, clean_sentences, parsed_sentences>>
object == <<framing, char_count, stats, nav, local_offset, clock>>
vars == <<object, new_char, ret, sent, cur, pos, junk>>

\* update() returned v
Returned(v) == [exc |-> "", val |-> v]
\* update() raised e
Raised(e) == [exc |-> e, val |-> None]

\* a range check that lets the code 127 through
Accepted_to_127(c) == 20 <= c /\ c <= 127

\* 20 <= ascii_char <= 126
Accepted(c) == 20 <= c /\ c <= 126

\* self.gps_segments[self.active_segment] = ''.join(self.__buf)
update_segment(g, a, b) == [g EXCEPT ![a + 1] = b]

\* a comparison of the first checksum digit alone
CrcMatch_first_digit(crc, final_crc) == crc \div 16 = final_crc \div 16

\* self.crc_xor == final_crc
CrcMatch(crc, final_crc) == crc = final_crc

\* a checksum that leaves the commas out
crc_update_no_comma(crc, c, process) == IF process /\ c # COMMA THEN Xor(crc, c) ELSE crc

\* "Update CRC": crc_xor after the character c, process being process_crc
crc_update(crc, c, process) == IF process THEN Xor(crc, c) ELSE crc

\* self.char_count > self.SENTENCE_LIMIT
OverLimit(count) == count > SENTENCE_LIMIT

\* a new_sentence() that keeps the running checksum
new_sentence_keeps_crc ==
    /\ gps_segments' = << <<>> >>
    /\ active_segment' = 0
    /\ crc_xor' = crc_xor
    /\ sentence_active' = TRUE
    /\ process_crc' = TRUE
    /\ char_count' = 0
    /\ buf' = <<>>

\* new_sentence(), called by update('$')
new_sentence ==
    /\ gps_segments' = << <<>> >>
    /\ active_segment' = 0
    /\ crc_xor' = 0
    /\ sentence_active' = TRUE
    /\ process_crc' = TRUE
    /\ char_count' = 0
    /\ buf' = <<>>

\* update('*') while a sentence is active
EndOfData ==
    /\ process_crc' = FALSE
    /\ gps_segments' = Append(update_segment(gps_segments, active_segment, buf), <<>>)
    /\ buf' = <<>>
    /\ active_segment' = active_segment + 1
    /\ char_count' = char_count + 1
    /\ ret' = Returned(None)
    /\ UNCHANGED <<sentence_active, crc_xor, stats, nav, clock>>

\* the sentence is active after the check of the sentence limit
WithinLimit == ~OverLimit(char_count + 1)

\* update(',') while a sentence is active
EndOfSegment ==
    /\ gps_segments' = Append(update_segment(gps_segments, active_segment, buf), <<>>)
    /\ buf' = <<>>
    /\ active_segment' = active_segment + 1
    /\ sentence_active' = WithinLimit
    /\ ret' = Returned(None)
    /\ UNCHANGED <<stats, nav, clock>>

\* update(c) appends c to the accumulator, and that is all
Collect(c) ==
    /\ buf' = Append(buf, c)
    /\ sentence_active' = WithinLimit
    /\ ret' = Returned(None)
    /\ UNCHANGED <<gps_segments, active_segment, stats, nav, clock>>

\* the decoder of the sentence identified by id has returned or raised d
Parsed(id, d) ==
    /\ nav' = d.nav
    /\ clock' = clock + 1
    /\ parsed_sentences' = IF d.res = "True" THEN parsed_sentences + 1 ELSE parsed_sentences
    /\ ret' = IF d.res = "True" THEN Returned(id)
              ELSE IF d.res = "IndexError" THEN Raised("IndexError")
              ELSE Returned(None)

ValidSentence_counts_parsed(segs) ==
    /\ clean_sentences' = clean_sentences + 1
    /\ sentence_active' = FALSE
    /\ UNCHANGED crc_fails
    /\ IF Decoder(segs[1]) # ""
       THEN Parsed(segs[1], Dispatch(nav, segs, local_offset, clock + 1))
       ELSE /\ ret' = Returned(None)
            /\ parsed_sentences' = parsed_sentences + 1
            /\ UNCHANGED <<nav, clock>>

ValidSentence_resets_fails(segs) ==
    /\ clean_sentences' = clean_sentences + 1
    /\ sentence_active' = FALSE
    /\ crc_fails' = 0
    /\ IF Decoder(segs[1]) # ""
       THEN Parsed(segs[1], Dispatch(nav, segs, local_offset, clock + 1))
       ELSE /\ ret' = Returned(None)
            /\ UNCHANGED <<parsed_sentences, nav, clock>>

\* "If a Valid Sentence Was received": the segments are segs
ValidSentence(segs) ==
    /\ clean_sentences' = clean_sentences + 1
    /\ sentence_active' = FALSE
    /\ UNCHANGED crc_fails
    /\ IF Decoder(segs[1]) # ""
       THEN Parsed(segs[1], Dispatch(nav, segs, local_offset, clock + 1))
       ELSE /\ ret' = Returned(None)
            /\ UNCHANGED <<parsed_sentences, nav, clock>>

\* the checksum field is complete: final_crc is int() of it, [ok, v]
CheckCrc(segs, final_crc) ==
    /\ gps_segments' = segs
    /\ buf' = <<>>
    /\ UNCHANGED active_segment
    /\ IF final_crc.ok /\ CrcMatch(crc_xor, final_crc.v)
       THEN ValidSentence(segs)
       ELSE /\ crc_fails' = IF final_crc.ok THEN crc_fails + 1 ELSE crc_fails
            /\ sentence_active' = WithinLimit
            /\ ret' = Returned(None)
            /\ UNCHANGED <<clean_sentences, parsed_sentences, nav, clock>>

\* the second character of the checksum field arrives: __update_segment()
\* leaves segs
EndOfChecksum(segs) == CheckCrc(segs, ParseInt(segs[active_segment + 1], 16))

\* update(c) while a sentence is active, c not '$' or '*'
Store(c) ==
    /\ char_count' = char_count + 1
    /\ crc_xor' = crc_update(crc_xor, c, process_crc)
    /\ UNCHANGED process_crc
    /\ IF c = COMMA THEN EndOfSegment
       ELSE IF ~process_crc /\ Len(Append(buf, c)) = 2
       THEN EndOfChecksum(update_segment(gps_segments, active_segment, Append(buf, c)))
       ELSE Collect(c)

update_folds_idle(c) ==
    /\ new_char' = <<c>>
    /\ UNCHANGED local_offset
    /\ IF ~Accepted(c)
       THEN /\ ret' = Returned(None)
            /\ UNCHANGED <<framing, char_count, stats, nav, clock>>
       ELSE IF c = DOLLAR
       THEN /\ new_sentence
            /\ ret' = Returned(None)
            /\ UNCHANGED <<stats, nav, clock>>
       ELSE IF sentence_active
       THEN IF c = STAR THEN EndOfData ELSE Store(c)
       ELSE /\ char_count' = char_count + 1
            /\ crc_xor' = Xor(crc_xor, c)
            /\ ret' = Returned(None)
            /\ UNCHANGED <<sentence_active, active_segment, process_crc, gps_segments, buf,
                           stats, nav, clock>>

\* update(new_char): one call, whatever it leads to
update(c) ==
    /\ new_char' = <<c>>
    /\ UNCHANGED local_offset
    /\ IF ~Accepted(c)
       THEN /\ ret' = Returned(None)
            /\ UNCHANGED <<framing, char_count, stats, nav, clock>>
       ELSE IF c = DOLLAR
       THEN /\ new_sentence
            /\ ret' = Returned(None)
            /\ UNCHANGED <<stats, nav, clock>>
       ELSE IF sentence_active
       THEN IF c = STAR THEN EndOfData ELSE Store(c)
       ELSE /\ char_count' = char_count + 1
            /\ ret' = Returned(None)
            /\ UNCHANGED <<framing, stats, nav, clock>>

----------------------------------------------------------------------------
(* The receiver: the sentences it sends *)

RECURSIVE Fold(_)
\* the XOR of the codes of s
Fold(s) ==
    IF s = <<>> THEN 0
    ELSE IF Len(s) = 1 THEN s[1]
    ELSE LET h == Len(s) \div 2
             a == Fold(SubSeq(s, 1, h))
             b == Fold(SubSeq(s, h + 1, Len(s)))
         IN  Xor(a, b)

HexUpper == S(<<"0", "1", "2", "3", "4", "5", "6", "7", "8", "9", "A", "B", "C", "D", "E", "F">>)
HexLower == S(<<"0", "1", "2", "3", "4", "5", "6", "7", "8", "9", "a", "b", "c", "d", "e", "f">>)

\* the two hex digits of v < 256
Hex2(v, digits) == <<digits[(v \div 16) + 1], digits[(v % 16) + 1]>>

\* '$' data '*' trailer
Frame(data, trailer) == <<DOLLAR>> \o data \o <<STAR>> \o trailer

\* the sentence of the given data with its correct checksum
Good(data) == Frame(data, Hex2(Fold(data), HexUpper))
\* ... with the checksum of some other data
Bad(data) == Frame(data, Hex2(Xor(Fold(data), 1), HexUpper))
\* ... with a wrong checksum, then the right one
BadThenGood(data) == Bad(data) \o Hex2(Fold(data), HexUpper)
\* ... with the correct checksum in lower case
Lower(data) == Frame(data, Hex2(Fold(data), HexLower))
\* ... with a checksum field that is no hexadecimal number
Deformed(data) == Frame(data, S(<<"Z", "Z">>))

\* RMC with a fix; the same reporting no fix; with a malformed date; with
\* the hemisphere letters of the other axis; with a malformed speed; with no
\* fix and a truncated time
RMC_A == S(<<"G", "P", "R", "M", "C", ",", "0", "8", "1", "8", "3", "6", ",", "A", ",", "3", "7", "5", "1", ".", "6", "5", ",", "S", ",", "1", "4", "5", "0", "7", ".", "3", "6", ",", "E", ",", "0", "0", "0", ".", "5", ",", "3", "6", "0", ".", "0", ",", "1", "3", "0", "9", "9", "8">>)
RMC_V == S(<<"G", "P", "R", "M", "C", ",", "0", "8", "1", "8", "3", "7", ",", "V", ",", "3", "7", "5", "1", ".", "6", "5", ",", "S", ",", "1", "4", "5", "0", "7", ".", "3", "6", ",", "E", ",", "0", "0", "0", ".", "5", ",", "3", "6", "0", ".", "0", ",", "1", "3", "0", "9", "9", "8">>)
RMC_BADDATE == S(<<"G", "P", "R", "M", "C", ",", "0", "8", "1", "8", "3", "8", ",", "A", ",", ",", ",", ",", ",", ",", ",", "1", "3", "o", "9", "9", "8">>)
RMC_SWAP == S(<<"G", "P", "R", "M", "C", ",", "0", "8", "1", "8", "3", "6", ",", "A", ",", "3", "7", "5", "1", ".", "6", "5", ",", "E", ",", "1", "4", "5", "0", "7", ".", "3", "6", ",", "N", ",", "0", "0", "0", ".", "5", ",", ",", "1", "3", "0", "9", "9", "8">>)
RMC_BADSPEED == S(<<"G", "P", "R", "M", "C", ",", "0", "8", "1", "8", "3", "9", ",", "A", ",", "4", "8", "0", "7", ".", "0", "3", ",", "N", ",", "0", "1", "1", "3", "1", ".", "0", "0", ",", "E", ",", "x", ",", ",", "1", "3", "0", "9", "9", "8">>)
RMC_V_BADTIME == S(<<"G", "P", "R", "M", "C", ",", "0", "8", "1", "8", ",", "V", ",", ",", ",", ",", ",", ",", ",", "1", "3", "0", "9", "9", "8">>)

\* GGA with a fix; without; with a fix and cut short after the satellite
\* count; with a malformed latitude
GGA_FIX == S(<<"G", "P", "G", "G", "A", ",", "1", "2", "3", "5", "1", "9", ",", "4", "8", "0", "7", ".", "0", "3", "8", ",", "N", ",", "0", "1", "1", "3", "1", ".", "0", "0", "0", ",", "E", ",", "1", ",", "0", "8", ",", "0", ".", "9", ",", "5", "4", "5", ".", "4", ",", "M", ",", "4", "6", ".", "9", ",", "M", ",", ",">>)
GGA_NOFIX == S(<<"G", "P", "G", "G", "A", ",", "1", "2", "3", "5", "2", "0", ",", ",", ",", ",", ",", "0", ",", "0", "0", ",", ",", ",", "M", ",", ",", "M", ",", ",">>)
GGA_SHORT == S(<<"G", "P", "G", "G", "A", ",", "1", "2", "3", "5", "2", "1", ",", "4", "8", "0", "7", ".", "0", "3", "8", ",", "N", ",", "0", "1", "1", "3", "1", ".", "0", "0", "0", ",", "E", ",", "1", ",", "0", "8">>)
GGA_BADLAT == S(<<"G", "P", "G", "G", "A", ",", "1", "2", "3", "5", "2", "2", ",", "4", "8", "x", "7", ",", "N", ",", "0", "1", "1", "3", "1", ".", "0", "0", "0", ",", "E", ",", "1", ",", "0", "8">>)

\* GLL with a fix; without
GLL_A == S(<<"G", "P", "G", "L", "L", ",", "4", "9", "1", "6", ".", "4", "5", ",", "N", ",", "1", "2", "3", "1", "1", ".", "1", "2", ",", "W", ",", "2", "2", "5", "4", "4", "4", ",", "A">>)
GLL_V == S(<<"G", "P", "G", "L", "L", ",", "4", "9", "1", "6", ".", "4", "5", ",", "N", ",", "1", "2", "3", "1", "1", ".", "1", "2", ",", "W", ",", "2", "2", "5", "4", "4", "5", ",", "V">>)

\* VTG
VTG == S(<<"G", "P", "V", "T", "G", ",", "0", "5", "4", ".", "7", ",", "T", ",", ",", "M", ",", "0", "8", "5", ".", "5", ",", "N">>)

\* GSA; cut short inside the PRN list; the identifier alone
GSA == S(<<"G", "P", "G", "S", "A", ",", "A", ",", "3", ",", "0", "4", ",", "0", "5", ",", ",", ",", ",", ",", ",", ",", ",", ",", ",", ",", "2", ".", "5", ",", "1", ".", "3", ",", "2", ".", "1">>)
GSA_SHORT == S(<<"G", "P", "G", "S", "A", ",", "A", ",", "3", ",", "0", "4">>)
GSA_ID == S(<<"G", "P", "G", "S", "A">>)

\* GSV: sentence 1 of 2; sentence 2 of 2; the identifier alone
GSV_1OF2 == S(<<"G", "P", "G", "S", "V", ",", "2", ",", "1", ",", "0", "6", ",", "0", "1", ",", "4", "0", ",", "0", "8", "3", ",", "4", "6", ",", "0", "2", ",", ",", "3", "0", "8", ",", ",">>)
GSV_2OF2 == S(<<"G", "P", "G", "S", "V", ",", "2", ",", "2", ",", "0", "6", ",", "1", "5", ",", "1", "0", ",", "0", "1", "0", ",", ",", "1", "8", ",", ",", ",">>)
GSV_ID == S(<<"G", "P", "G", "S", "V">>)

\* a sentence no decoder is registered for
GNGSV == S(<<"G", "N", "G", "S", "V", ",", "1", ",", "1", ",", "0", "0">>)

\* what the receiver may send: each of the above with its checksum, the
\* GGA fix with the trailer its data sheet gives, and VTG with every kind
\* of trailer
Sentences ==
    << Good(RMC_A), Good(RMC_V), Good(RMC_BADDATE), Good(RMC_SWAP), Good(RMC_BADSPEED),
       Good(RMC_V_BADTIME),
       Frame(GGA_FIX, S(<<"4", "7">>)), Good(GGA_NOFIX), Good(GGA_SHORT), Good(GGA_BADLAT),
       Good(GLL_A), Good(GLL_V), Good(VTG),
       Good(GSA), Good(GSA_SHORT), Good(GSA_ID),
       Good(GSV_1OF2), Good(GSV_2OF2), Good(GSV_ID), Good(GNGSV),
       Bad(VTG), BadThenGood(VTG), Lower(VTG), Deformed(VTG) >>

\* the sentences that may come before the receiver's last one: one the
\* decoder accepts for each sentence type
Earlier ==
    {i \in 1..Len(Sentences) :
        Sentences[i] \in {Good(RMC_A), Frame(GGA_FIX, S(<<"4", "7">>)), Good(GLL_A), Good(VTG),
                          Good(GSA), Good(GSV_1OF2)}}

\* what may arrive after a sentence
Garbage == {ZERO, COMMA}
\* codes update() does not accept, on either side of the accepted range
Rejected == {19, 127}
\* the constructor's local_offset
Offsets == {0 - 9, 0}

MaxSentences == 2
MaxIdle == 2

----------------------------------------------------------------------------
(* Specification *)

Init ==
    /\ sentence_active = FALSE
    /\ active_segment = 0
    /\ process_crc = FALSE
    /\ gps_segments = <<>>
    /\ crc_xor = 0
    /\ char_count = 0
    /\ buf = <<>>
    /\ crc_fails = 0
    /\ clean_sentences = 0
    /\ parsed_sentences = 0
    /\ nav = InitNav
    /\ local_offset \in Offsets
    /\ clock = 0
    /\ new_char = <<>>
    /\ ret = Returned(None)
    /\ sent = 0
    /\ cur = 0
    /\ pos = 0
    /\ junk = <<>>

\* the receiver starts a sentence, abandoning the one it was sending
Start ==
    /\ sent < MaxSentences
    /\ update(DOLLAR)
    /\ sent' = sent + 1
    /\ cur' = 0
    /\ pos' = 0
    /\ junk' = <<>>

\* the sentence started is Sentences[i]: its first character arrives
Begin(i) ==
    /\ sent > 0
    /\ sent = MaxSentences \/ i \in Earlier
    /\ cur = 0
    /\ junk = <<>>
    /\ update(Sentences[i][2])
    /\ cur' = i
    /\ pos' = 2
    /\ UNCHANGED <<sent, junk>>

\* the next character of the sentence arrives
Continue ==
    /\ cur # 0
    /\ pos < Len(Sentences[cur])
    /\ update(Sentences[cur][pos + 1])
    /\ pos' = pos + 1
    /\ UNCHANGED <<sent, cur, junk>>

\* a character arrives after the end of the sentence, or before the first
Idle(c) ==
    /\ IF cur = 0 THEN TRUE ELSE pos = Len(Sentences[cur])
    /\ Len(junk) < MaxIdle
    /\ update(c)
    /\ junk' = Append(junk, c)
    /\ UNCHANGED <<sent, cur, pos>>

\* line noise: a character outside the accepted range arrives
Noise(c) ==
    /\ update(c)
    /\ UNCHANGED <<sent, cur, pos, junk>>

Next ==
    \/ Start
    \/ \E i \in 1..Len(Sentences) : Begin(i)
    \/ Continue
    \/ \E c \in Garbage : Idle(c)
    \/ \E c \in Rejected : Noise(c)

Spec == Init /\ [][Next]_vars

\* the accepted characters fed from the last '$' on (all of them, before
\* the first '$')
fed ==
    (IF sent = 0 THEN <<>>
     ELSE IF cur = 0 THEN <<DOLLAR>>
     ELSE SubSeq(Sentences[cur], 1, pos)) \o junk

\* the position of the first '*' of f, 0 when it has none
FirstStar(f) ==
    IF \E i \in 1..Len(f) : f[i] = STAR
    THEN CHOOSE i \in 1..Len(f) : f[i] = STAR /\ \A j \in 1..(i - 1) : f[j] # STAR
    ELSE 0

----------------------------------------------------------------------------
(* The line: one bit of one character of a sentence is inverted on the way *)
(* to update().  cur is the sentence sent, pos the number of its           *)
(* characters delivered, junk the character delivered in place of the one  *)
(* that was altered (empty while every character arrived intact).          *)

\* the fold of the first thirteen characters is 0
VTG_ZERO_PREFIX == S(<<"G", "P", "V", "T", "G", ",", "0", "0", "0", ".", "4", ",", "T", ",", ",", "M", ",", "0", "0", "0", ".", "7", ",", "N">>)
\* the two digits after the last '.' are the fold of what precedes it
VTG_OWN_TRAILER == S(<<"G", "P", "V", "T", "G", ",", "0", "0", "0", ".", "0", ",", "T", ",", ",", "M", ",", "0", "0", "0", ".", "7", "9", ",", "N">>)

Originals == <<Good(VTG_ZERO_PREFIX), Good(VTG_OWN_TRAILER)>>

Bits == 0..7

\* the character c with bit b inverted
Flip(c, b) == Xor(c, 2 ^ b)

\* the '$' of Originals[i] arrives
FlipStart(i) ==
    /\ sent = 0
    /\ update(DOLLAR)
    /\ sent' = 1
    /\ cur' = i
    /\ pos' = 1
    /\ UNCHANGED junk

\* the next character arrives as it was sent
Intact ==
    /\ cur # 0
    /\ pos < Len(Originals[cur])
    /\ update(Originals[cur][pos + 1])
    /\ pos' = pos + 1
    /\ UNCHANGED <<sent, cur, junk>>

\* the next character, one between '$' and '*', arrives with bit b
\* inverted; no other character of the sentence is altered
Corrupt(b) ==
    /\ cur # 0
    /\ junk = <<>>
    /\ pos + 1 < FirstStar(Originals[cur])
    /\ update(Flip(Originals[cur][pos + 1], b))
    /\ junk' = <<Flip(Originals[cur][pos + 1], b)>>
    /\ pos' = pos + 1
    /\ UNCHANGED <<sent, cur>>

NextFlip ==
    \/ \E i \in 1..Len(Originals) : FlipStart(i)
    \/ Intact
    \/ \E b \in Bits : Corrupt(b)

SpecFlip == Init /\ [][NextFlip]_vars

----------------------------------------------------------------------------
(* The receiver reports the satellites in view: it sends GSV sentences,    *)
(* whole groups, parts of groups and sentences that repeat a satellite.    *)

GSV_2OF2_AGAIN == S(<<"G", "P", "G", "S", "V", ",", "2", ",", "2", ",", "0", "6", ",", "0", "2", ",", "1", "7", ",", "3", "0", "8", ",", "4", "1", ",", "1", "5", ",", ",", ",">>)
GSV_1OF1 == S(<<"G", "P", "G", "S", "V", ",", "1", ",", "1", ",", "0", "1", ",", "2", "1", ",", ",", ",">>)
GSV_1OF3 == S(<<"G", "P", "G", "S", "V", ",", "3", ",", "1", ",", "0", "9", ",", "0", "5", ",", ",", ",", ",">>)
GSV_3OF3 == S(<<"G", "P", "G", "S", "V", ",", "3", ",", "3", ",", "0", "9", ",", "0", "9", ",", ",", ",">>)

GsvSentences ==
    << Good(GSV_1OF2), Good(GSV_2OF2), Good(GSV_2OF2_AGAIN),
       Good(GSV_1OF1), Good(GSV_1OF3), Good(GSV_3OF3) >>

\* the sentence started is GsvSentences[i]: its first character arrives
GsvBegin(i) ==
    /\ sent > 0
    /\ cur = 0
    /\ update(GsvSentences[i][2])
    /\ cur' = i
    /\ pos' = 2
    /\ UNCHANGED <<sent, junk>>

\* the next character of the sentence arrives
GsvContinue ==
    /\ cur # 0
    /\ pos < Len(GsvSentences[cur])
    /\ update(GsvSentences[cur][pos + 1])
    /\ pos' = pos + 1
    /\ UNCHANGED <<sent, cur, junk>>

NextGsv ==
    \/ Start
    \/ \E i \in 1..Len(GsvSentences) : GsvBegin(i)
    \/ GsvContinue

SpecGsv == Init /\ [][NextGsv]_vars

----------------------------------------------------------------------------
(* The receiver repeats itself: it sends a sentence twice in succession,   *)
(* after another sentence or as the first thing it sends.  sent is 1 while *)
(* the sentence before is sent, 2 during the first copy and 3 during the   *)
(* second.                                                                 *)

Repeated ==
    << Good(RMC_A), Good(RMC_V), Frame(GGA_FIX, S(<<"4", "7">>)), Good(GGA_NOFIX),
       Good(GLL_A), Good(GLL_V), Good(VTG), Good(GSA),
       Good(GSV_1OF2), Good(GSV_2OF2) >>

\* the first '$' arrives: of the sentence before (k = 1) or of the first
\* copy (k = 2)
TwiceStart(k) ==
    /\ sent = 0
    /\ update(DOLLAR)
    /\ sent' = k
    /\ UNCHANGED <<cur, pos, junk>>

\* the sentence started is Repeated[i]: its first character arrives
TwiceBegin(i) ==
    /\ sent > 0
    /\ cur = 0
    /\ update(Repeated[i][2])
    /\ cur' = i
    /\ pos' = 2
    /\ UNCHANGED <<sent, junk>>

\* the next character of the sentence arrives
TwiceContinue ==
    /\ cur # 0
    /\ pos < Len(Repeated[cur])
    /\ update(Repeated[cur][pos + 1])
    /\ pos' = pos + 1
    /\ UNCHANGED <<sent, cur, junk>>

\* the sentence before is over: the '$' of the first copy arrives
TwiceFirst ==
    /\ sent = 1
    /\ IF cur = 0 THEN FALSE ELSE pos = Len(Repeated[cur])
    /\ update(DOLLAR)
    /\ sent' = 2
    /\ cur' = 0
    /\ pos' = 0
    /\ UNCHANGED junk

\* the first copy is over: the '$' of the second copy arrives
TwiceAgain ==
    /\ sent = 2
    /\ IF cur = 0 THEN FALSE ELSE pos = Len(Repeated[cur])
    /\ update(DOLLAR)
    /\ sent' = 3
    /\ pos' = 1
    /\ UNCHANGED <<cur, junk>>

NextTwice ==
    \/ \E k \in {1, 2} : TwiceStart(k)
    \/ \E i \in 1..Len(Repeated) : TwiceBegin(i)
    \/ TwiceContinue
    \/ TwiceFirst
    \/ TwiceAgain

SpecTwice == Init /\ [][NextTwice]_vars

----------------------------------------------------------------------------
(* The example of the documentation: a GGA sentence fed to a new object,   *)
(* one character per call.  pos is the number of characters fed.           *)

EXAMPLE == Frame(GGA_FIX, S(<<"4", "7">>))

Feed ==
    /\ pos < Len(EXAMPLE)
    /\ update(EXAMPLE[pos + 1])
    /\ pos' = pos + 1
    /\ UNCHANGED <<sent, cur, junk>>

NextExample == Feed

SpecExample == Init /\ [][NextExample]_vars

----------------------------------------------------------------------------
(* A receiver that does not end its sentences: after '$' it sends the same *)
(* character over and over, and a '*' when it pleases.                     *)

MaxChars == 93

\* the '$' arrives
LongStart ==
    /\ sent = 0
    /\ update(DOLLAR)
    /\ sent' = 1
    /\ UNCHANGED <<cur, pos, junk>>

\* one more character arrives
Fill ==
    /\ sent = 1
    /\ char_count < MaxChars
    /\ update(ZERO)
    /\ UNCHANGED <<sent, cur, pos, junk>>

\* the '*' arrives
LongStar ==
    /\ sent = 1
    /\ char_count < MaxChars
    /\ process_crc
    /\ update(STAR)
    /\ UNCHANGED <<sent, cur, pos, junk>>

NextLong ==
    \/ LongStart
    \/ Fill
    \/ LongStar

SpecLong == Init /\ [][NextLong]_vars

----------------------------------------------------------------------------
(* A receiver that sends unusual sentences, all with a correct checksum:   *)
(* GSV whose counts disagree with its blocks, times with a sign or out of  *)
(* range, sentences that stop before the fields a decoder reads.           *)

Unusual ==
    << Good(S(<<"G", "P", "G", "S", "V", ",", "1", ",", "1", ",", "0", "5", ",", "0", "1", ",", ",", ",", ",", "0", "2", ",", ",", ",", ",", "0", "3", ",", ",", ",", ",", "0", "4", ",", ",", ",", ",", "0", "5", ",", ",", ",", ",">>)),
       Good(S(<<"G", "P", "G", "S", "V", ",", "1", ",", "1", ",", "0", "0">>)),
       Good(S(<<"G", "P", "G", "S", "V", ",", "3", ",", "3", ",", "0", "4", ",", "0", "7", ",", ",", ",">>)),
       Good(S(<<"G", "P", "G", "L", "L", ",", ",", ",", ",", ",", "1", "2", "-", "5", "1", "9", ",", "V">>)),
       Good(S(<<"G", "P", "G", "L", "L", ",", ",", ",", ",", ",", "1", "2", "3", "0", "-", "5", ",", "V">>)),
       Good(S(<<"G", "P", "G", "L", "L", ",", ",", ",", ",", ",", "2", "5", "0", "0", "0", "0", ",", "V">>)),
       Good(S(<<"G", "P", "G", "L", "L", ",", ",", ",", ",", ",", "-", "1", "3", "0", "1", "5", ",", "V">>)),
       Good(S(<<"G", "P", "G", "G", "A", ",", "1", "2", "3", "5", "2", "0", ",", ",", ",", ",", ",", "0", ",", "0", "4">>)),
       Good(S(<<"G", "P", "G", "S", "V", ",", "2", ",", "1", ",", "0", "6", ",", "0", "1", ",", ",", ",", ",", "0", "2", ",", ",", ",", ",", "0", "6", ",", ",", ",">>)) >>

\* the sentence started is Unusual[i]: its first character arrives
UnusualBegin(i) ==
    /\ sent > 0
    /\ cur = 0
    /\ update(Unusual[i][2])
    /\ cur' = i
    /\ pos' = 2
    /\ UNCHANGED <<sent, junk>>

\* the next character of the sentence arrives
UnusualContinue ==
    /\ cur # 0
    /\ pos < Len(Unusual[cur])
    /\ update(Unusual[cur][pos + 1])
    /\ pos' = pos + 1
    /\ UNCHANGED <<sent, cur, junk>>

SpecUnusual ==
    Init /\ [][ \/ Start
                \/ \E i \in 1..Len(Unusual) : UnusualBegin(i)
                \/ UnusualContinue ]_vars

----------------------------------------------------------------------------
(* Properties.  A step is one update() call: the unprimed variables are    *)
(* the object before the call, the primed ones the object after it, and    *)
(* new_char' holds the character of the call.                              *)

\* the character of the step's call
Char == new_char'[1]

\* c is a hexadecimal digit
HexDigit(c) == DigitVal(c, 16) >= 0

\* the characters of f strictly between its '$' and its first '*' (to the
\* end of f when it has no '*')
DataOf(f) ==
    IF FirstStar(f) = 0 THEN SubSeq(f, 2, Len(f)) ELSE SubSeq(f, 2, FirstStar(f) - 1)

\* the step's call delivers the second character of the checksum field of
\* an active sentence
CompletesChecksum ==
    /\ sentence_active
    /\ ~process_crc
    /\ Len(buf) = 1
    /\ 20 <= Char /\ Char <= 126
    /\ Char \notin {DOLLAR, STAR, COMMA}

\* the checksum field the step's call completes
Field == Append(buf, Char)

\* the step's call completes a checksum-clean sentence
CompletesClean == clean_sentences' = clean_sentences + 1

\* the navigation state without the time of the last fix
Registers(n) == [n EXCEPT !.fix_time = 0]

\* the value returned is a sentence identifier
Event(r) == r.exc = "" /\ r.val # None

\* C1 (as stated): a call returns a sentence identifier exactly when it
\* delivers the second checksum character of an active sentence, the
\* checksum matches the running XOR, gps_segments[0] is a supported
\* sentence and its decoder returns True; the value is then
\* gps_segments[0]; every other call returns None.
C1_ReturnsEventOrNone ==
    [][ LET final_crc == ParseInt(Field, 16)
            hit == /\ CompletesChecksum
                   /\ final_crc.ok /\ final_crc.v = crc_xor
                   /\ Decoder(gps_segments'[1]) # ""
                   /\ Dispatch(nav, gps_segments', local_offset, clock + 1).res = "True"
        IN  IF hit THEN ret' = Returned(gps_segments'[1])
            ELSE ret' = Returned(None) ]_vars

\* C2 (as stated): when a checksum-clean supported sentence makes its
\* decoder return False, every register of the navigation state has the
\* value it had before the call.
C2_FailedDecoderChangesNothing ==
    [][ ( /\ CompletesClean
          /\ Decoder(gps_segments'[1]) # ""
          /\ Dispatch(nav, gps_segments', local_offset, clock + 1).res = "False" )
        => Registers(nav') = Registers(nav) ]_vars

\* the two characters that followed the first '*' since the last '$' were
\* hexadecimal digits whose value differs from the fold of the data
Mismatched ==
    LET star == FirstStar(fed)
    IN  /\ star > 0
        /\ Len(fed) >= star + 2
        /\ HexDigit(fed[star + 1]) /\ HexDigit(fed[star + 2])
        /\ 16 * DigitVal(fed[star + 1], 16) + DigitVal(fed[star + 2], 16) # Fold(DataOf(fed))

\* C3 (as stated): once the two characters after '*' differ from the
\* running XOR, no later character fed before the next '$' makes the
\* sentence counted clean, dispatched to a decoder or returned as an event.
C3_MismatchDiscards ==
    [][ (Mismatched /\ Char # DOLLAR)
        => /\ clean_sentences' = clean_sentences
           /\ parsed_sentences' = parsed_sentences
           /\ clock' = clock
           /\ nav' = nav
           /\ ret' = Returned(None) ]_vars

\* C4 (as stated): update() never raises: each call returns None or a
\* sentence identifier.
C4_NeverRaises == ret.exc = ""

\* C5: while a sentence is active, crc_xor is the XOR fold of the accepted
\* characters fed after the last '$' up to the first '*' (all of them,
\* commas included, while no '*' has been seen); it is therefore the value
\* the trailer is compared against.
C5_CrcIsFold == sentence_active => crc_xor = Fold(DataOf(fed))

\* a second sentence is under way, commas fed and no '*' yet, after a first
\* sentence that left another checksum behind
C5_Witness ==
    /\ sentence_active
    /\ clean_sentences = 1
    /\ FirstStar(fed) = 0
    /\ Len(fed) > 8
    /\ \E i \in 1..Len(fed) : fed[i] = COMMA
    /\ crc_xor # 0
    /\ crc_xor = Fold(SubSeq(fed, 2, Len(fed)))

\* C6: the call that completes a checksum field of two hexadecimal digits
\* whose value differs from the running XOR adds 1 to crc_fails, leaves
\* clean_sentences, parsed_sentences and the navigation state as they were
\* and returns None.
C6_MismatchCounted ==
    [][ ( /\ CompletesChecksum
          /\ HexDigit(buf[1]) /\ HexDigit(Char)
          /\ 16 * DigitVal(buf[1], 16) + DigitVal(Char, 16) # crc_xor )
        => /\ crc_fails' = crc_fails + 1
           /\ clean_sentences' = clean_sentences
           /\ parsed_sentences' = parsed_sentences
           /\ nav' = nav
           /\ ret' = Returned(None) ]_vars

\* a sentence whose checksum is off by one has just been completed, after a
\* sentence that was decoded
C6_Witness ==
    /\ fed = Bad(VTG)
    /\ new_char = <<fed[Len(fed)]>>
    /\ crc_fails = 1
    /\ clean_sentences = 1
    /\ parsed_sentences = 1
    /\ nav # InitNav
    /\ ret = Returned(None)

\* C7 (as stated): the latitude hemisphere stored is 'N' or 'S' and the
\* longitude hemisphere stored is 'E' or 'W'.
C7_HemisphereOfAxis ==
    /\ nav.latitude[3] \in {S(<<"N">>), S(<<"S">>)}
    /\ nav.longitude[3] \in {S(<<"E">>), S(<<"W">>)}

\* the sentence of segments g is an RMC whose data valid flag is 'V'
RmcVoid(g) == Decoder(g[1]) = "gprmc" /\ Len(g) >= 3 /\ g[3] = S(<<"V">>)
\* the sentence of segments g is a GLL whose data valid flag is 'V'
GllVoid(g) == Decoder(g[1]) = "gpgll" /\ Len(g) >= 7 /\ g[7] = S(<<"V">>)

\* the position registers hold their cleared values
PositionCleared(n) == n.latitude = CLEAR_LAT /\ n.longitude = CLEAR_LON /\ n.valid = FALSE

\* C8 (as stated): after the call that completes a checksum-clean RMC or
\* GLL whose data valid flag is 'V', latitude and longitude are cleared,
\* speed and course are 0.0 and valid is False.
C8_VoidClearsAll ==
    [][ (CompletesClean /\ (RmcVoid(gps_segments') \/ GllVoid(gps_segments')))
        => /\ PositionCleared(nav')
           /\ nav'.speed = Float0
           /\ nav'.course = Float0 ]_vars

\* C8 (amended): after the call that returns the identifier of an RMC or
\* GLL whose data valid flag is 'V', latitude and longitude are cleared
\* and valid is False; after an RMC speed and course are 0.0, after a GLL
\* they are what they were.
C8_VoidClears ==
    [][ Event(ret')
        => /\ RmcVoid(gps_segments')
              => PositionCleared(nav') /\ nav'.speed = Float0 /\ nav'.course = Float0
           /\ GllVoid(gps_segments')
              => PositionCleared(nav') /\ nav'.speed = nav.speed /\ nav'.course = nav.course ]_vars

\* an RMC with the flag 'V' has just been decoded, after a sentence that
\* gave a position and made the time of the first fix
C8_Witness ==
    /\ Event(ret)
    /\ new_char = <<fed[Len(fed)]>>
    /\ RmcVoid(gps_segments)
    /\ parsed_sentences = 2
    /\ nav.fix_time = 1
    /\ nav.fix_stat = 0
    /\ nav.fix_type = NO_FIX
    /\ PositionCleared(nav)
    /\ nav.speed = Float0

\* C9: update('$') leaves gps_segments [''], active_segment 0, crc_xor 0,
\* char_count 0, the accumulator empty, sentence_active and process_crc
\* True; it returns None and changes no navigation register and no
\* counter.
C9_DollarResets ==
    [][ Char = DOLLAR
        => /\ gps_segments' = << <<>> >>
           /\ active_segment' = 0
           /\ crc_xor' = 0
           /\ char_count' = 0
           /\ buf' = <<>>
           /\ sentence_active'
           /\ process_crc'
           /\ ret' = Returned(None)
           /\ UNCHANGED <<nav, stats, clock>> ]_vars

\* a '$' has just arrived after a sentence that was decoded and left its
\* segments and checksum behind
C9_Witness ==
    /\ new_char = <<DOLLAR>>
    /\ sent = 2
    /\ parsed_sentences = 1
    /\ gps_segments = << <<>> >>
    /\ crc_xor = 0
    /\ sentence_active

\* C10: update(c) for a code below 20 or above 126 changes nothing of the
\* object and returns None.
C10_RejectedIgnored ==
    [][ (Char < 20 \/ Char > 126) => UNCHANGED object /\ ret' = Returned(None) ]_vars

\* the code 127 has just arrived in the middle of a field of a second
\* sentence
C10_Witness ==
    /\ new_char = <<127>>
    /\ sentence_active
    /\ process_crc
    /\ buf # <<>>
    /\ crc_xor # 0
    /\ char_count > 0
    /\ clean_sentences = 1

\* the sentence sent arrived with one character altered
Corrupted == junk # <<>>

\* C11 (as stated): a sentence of which one bit of one character between
\* '$' and '*' was inverted is never counted clean and never returns an
\* event, whatever the character became.
C11_AnyFlipRejected ==
    Corrupted => clean_sentences = 0 /\ parsed_sentences = 0 /\ ret = Returned(None)

\* the part of it that holds: when the character became anything but '$'
\* or '*', the sentence is never counted clean and never returns an event
OtherFlipsRejected ==
    (Corrupted /\ junk[1] \notin {DOLLAR, STAR})
    => clean_sentences = 0 /\ parsed_sentences = 0 /\ ret = Returned(None)

\* C12 (as stated): the call that completes a checksum field whose two
\* characters are not both hexadecimal digits adds 1 to crc_fails, leaves
\* clean_sentences, parsed_sentences and the navigation state as they
\* were, dispatches no decoder, returns None and raises nothing.
C12_NonHexCounted ==
    [][ (CompletesChecksum /\ ~(HexDigit(buf[1]) /\ HexDigit(Char)))
        => /\ crc_fails' = crc_fails + 1
           /\ clean_sentences' = clean_sentences
           /\ parsed_sentences' = parsed_sentences
           /\ clock' = clock
           /\ nav' = nav
           /\ ret' = Returned(None) ]_vars

\* the part of it that holds: everything but the count of failures
NonHexDiscarded ==
    [][ (CompletesChecksum /\ ~(HexDigit(buf[1]) /\ HexDigit(Char)))
        => /\ crc_fails' = crc_fails
           /\ clean_sentences' = clean_sentences
           /\ parsed_sentences' = parsed_sentences
           /\ clock' = clock
           /\ nav' = nav
           /\ ret' = Returned(None) ]_vars

\* C13: the call that completes a checksum-clean sentence whose identifier
\* is not a supported one adds exactly 1 to clean_sentences, leaves
\* parsed_sentences, crc_fails and the navigation state as they were and
\* returns None.
C13_UnsupportedCounted ==
    [][ ( /\ CompletesChecksum
          /\ ParseInt(Field, 16).ok
          /\ ParseInt(Field, 16).v = crc_xor
          /\ Decoder(gps_segments[1]) = "" )
        => /\ clean_sentences' = clean_sentences + 1
           /\ parsed_sentences' = parsed_sentences
           /\ crc_fails' = crc_fails
           /\ clock' = clock
           /\ nav' = nav
           /\ ret' = Returned(None) ]_vars

\* a GNGSV sentence has just been completed, after a sentence that was
\* decoded
C13_Witness ==
    /\ fed = Good(GNGSV)
    /\ new_char = <<fed[Len(fed)]>>
    /\ clean_sentences = 2
    /\ parsed_sentences = 1
    /\ crc_fails = 0
    /\ nav # InitNav
    /\ ret = Returned(None)

\* the positions of the satellite numbers in a GSV sentence
SatPositions == {4, 8, 12, 16}

\* the positions of g, the checksum field excluded, that hold a satellite
\* number
SatsAt(g) ==
    {p \in SatPositions : Has(g, p + 1) /\ Seg(g, p) # <<>> /\ ParseInt(Seg(g, p), 10).ok}

\* the satellites of the GSV sentence of segments g: number |-> (elevation,
\* azimuth, SNR), the last block winning when a number is repeated
SatsOf(g) ==
    [ k \in {ParseInt(Seg(g, p), 10).v : p \in SatsAt(g)} |->
        LET p == CHOOSE q \in SatsAt(g) :
                    /\ ParseInt(Seg(g, q), 10).v = k
                    /\ \A r \in SatsAt(g) : ParseInt(Seg(g, r), 10).v = k => r <= q
        IN  <<OptInt(g, p + 1), OptInt(g, p + 2), OptInt(g, p + 3)>> ]

\* the step's call returns the identifier of a GSV sentence
GsvDecoded == Event(ret') /\ Decoder(ret'.val) = "gpgsv"

\* C14: the call that decodes a GSV sentence of index 1 makes
\* satellite_data exactly the satellites of that sentence; the call that
\* decodes one of any other index merges the satellites of the sentence
\* into satellite_data, a satellite already there taking the new values.
C14_GsvAccumulates ==
    [][ GsvDecoded
        => nav'.satellite_data =
             IF ParseInt(gps_segments'[3], 10).v = 1
             THEN SatsOf(gps_segments')
             ELSE [ k \in DOMAIN nav.satellite_data \cup DOMAIN SatsOf(gps_segments') |->
                      IF k \in DOMAIN SatsOf(gps_segments')
                      THEN SatsOf(gps_segments')[k]
                      ELSE nav.satellite_data[k] ] ]_vars

\* sentence 2 of 2 has just been decoded after sentence 1 of 2: satellite 2
\* has the values of the second sentence, satellite 1 those of the first
C14_Witness ==
    /\ cur = 3
    /\ pos = Len(GsvSentences[3])
    /\ Event(ret)
    /\ DOMAIN nav.satellite_data = {1, 2, 15}
    /\ nav.satellite_data[1] = <<Some(40), Some(83), Some(46)>>
    /\ nav.satellite_data[2] = <<Some(17), Some(308), Some(41)>>
    /\ nav.satellite_data[15] = <<None, None, None>>

\* C15 (as stated): while satellite_data_updated() is true, every sentence
\* 1..total_sv_sentences of the group has been decoded; so at least
\* total_sv_sentences sentences have been decoded.
C15_UpdatedMeansComplete ==
    satellite_data_updated(nav) => parsed_sentences >= nav.total_sv_sentences

\* C16: no call of the second of two successive copies of a well-formed
\* supported sentence changes a register of the navigation state, the time
\* of the last fix excepted: after the second copy the registers are what
\* they were after the first.  The last call of each copy adds 1 to
\* clean_sentences and 1 to parsed_sentences.
C16_SecondCopyIdempotent ==
    [][ /\ sent = 3 => Registers(nav') = Registers(nav)
        /\ (sent \in {2, 3} /\ cur # 0 /\ pos' = Len(Repeated[cur]))
           => /\ clean_sentences' = clean_sentences + 1
              /\ parsed_sentences' = parsed_sentences + 1
              /\ crc_fails' = crc_fails ]_vars

\* the second copy of a sentence that changed the registers has just been
\* decoded, after another sentence
C16_Witness ==
    /\ sent = 3
    /\ pos = Len(Repeated[cur])
    /\ Event(ret)
    /\ clean_sentences = 3
    /\ parsed_sentences = 3
    /\ nav.satellites_used = <<4, 5>>
    /\ nav.valid
    /\ nav.fix_time = 3

\* C17: no call decreases or resets crc_fails, clean_sentences or
\* parsed_sentences, and parsed_sentences <= clean_sentences in every
\* state.
C17_CountersMonotonic ==
    /\ [](parsed_sentences <= clean_sentences)
    /\ [][ /\ crc_fails' >= crc_fails
           /\ clean_sentences' >= clean_sentences
           /\ parsed_sentences' >= parsed_sentences ]_vars

\* a sentence was decoded, then one failed its checksum and another was
\* counted clean and decoded
C17_Witness ==
    /\ crc_fails = 1
    /\ clean_sentences = 2
    /\ parsed_sentences = 2
    /\ sent = 2

\* the data valid flag of the RMC or GLL sentence of segments g is 'A'
FlagA(g) ==
    IF Decoder(g[1]) = "gprmc" THEN g[3] = DATA_VALID ELSE g[7] = DATA_VALID

\* C18: valid is False until a sentence is decoded; the call that returns
\* the identifier of an RMC or GLL sentence makes valid True if the
\* sentence carried 'A' and False otherwise; every other call, those that
\* decode GGA, VTG, GSA and GSV included, leaves valid as it was.  So valid
\* is True only if the last RMC or GLL decoded carried 'A'.
C18_ValidFollowsFlag ==
    /\ [](parsed_sentences = 0 => ~nav.valid)
    /\ [][ IF Event(ret') /\ Decoder(ret'.val) \in {"gprmc", "gpgll"}
           THEN nav'.valid = FlagA(gps_segments')
           ELSE nav'.valid = nav.valid ]_vars

\* a GGA sentence with no fix has just been decoded after an RMC with the
\* flag 'A': valid is still True
C18_Witness ==
    /\ Event(ret)
    /\ Decoder(ret.val) = "gpgga"
    /\ nav.fix_stat = 0
    /\ parsed_sentences = 2
    /\ nav.valid
    /\ nav.date # CLEAR_DATE

\* C19: a new object with local_offset 0 fed the example sentence returns
\* None for every character but the last and 'GPGGA' for the last, and
\* then holds timestamp (12, 35, 19.0), fix_stat 1, satellites_in_use 8,
\* altitude 545.4, geoid_height 46.9, latitude (48, 7.038, 'N') and
\* longitude (11, 31.0, 'E').
C19_ExampleDecoded ==
    local_offset = 0
    => IF pos < Len(EXAMPLE)
       THEN ret = Returned(None)
       ELSE /\ ret = Returned(S(<<"G", "P", "G", "G", "A">>))
            /\ nav.timestamp = <<12, 35, <<19, 0>> >>
            /\ nav.fix_stat = 1
            /\ nav.satellites_in_use = 8
            /\ nav.altitude = <<5454, 1>>
            /\ nav.geoid_height = <<469, 1>>
            /\ nav.latitude = <<48, <<7038, 3>>, S(<<"N">>)>>
            /\ nav.longitude = <<11, <<31, 0>>, S(<<"E">>)>>

\* the last character of the example has been fed to an object with
\* local_offset 0
C19_Witness ==
    /\ local_offset = 0
    /\ pos = Len(EXAMPLE)
    /\ new_char = <<EXAMPLE[Len(EXAMPLE)]>>
    /\ clean_sentences = 1
    /\ parsed_sentences = 1
    /\ nav.fix_time = 1

\* C20 (as stated): after every call, char_count > 90 implies that
\* sentence_active is False.
C20_OverLimitInactive == char_count > SENTENCE_LIMIT => ~sentence_active

\* C21 (as stated): a call whose character is more than 90 accepted
\* characters after the last '$' never counts a sentence clean, dispatches
\* no decoder and returns no event.
C21_LimitBoundsSentence ==
    [][ char_count' > SENTENCE_LIMIT
        => /\ clean_sentences' = clean_sentences
           /\ parsed_sentences' = parsed_sentences
           /\ clock' = clock
           /\ ret' = Returned(None) ]_vars

\* the satellites that a call added to satellite_data or gave other values
Touched ==
    {k \in DOMAIN nav'.satellite_data :
        IF k \in DOMAIN nav.satellite_data
        THEN nav'.satellite_data[k] # nav.satellite_data[k]
        ELSE TRUE}

\* C22 (as stated): the call that decodes a GSV sentence adds or
\* overwrites at most 4 entries of satellite_data, whatever the counts of
\* the sentence are.
C22_AtMostFourBlocks ==
    [][ GsvDecoded => Cardinality(Touched) <= 4 ]_vars

\* C23 (as stated): in every state timestamp is the cleared value or has
\* an hour in 0..23, a minute in 0..59 and a second in [0, 60).
C23_TimestampInRange ==
    \/ nav.timestamp = CLEAR_TIME
    \/ /\ nav.timestamp[1] \in 0..23
       /\ nav.timestamp[2] \in 0..59
       /\ FloatGE(nav.timestamp[3], Float0)
       /\ ~FloatGE(nav.timestamp[3], <<60, 0>>)

\* C24: while no sentence is active, a call with an accepted character
\* other than '$' returns None, adds 1 to char_count and changes nothing
\* else: the segments, the buffer, the checksum accumulator, the counters
\* and the navigation state are as they were, and the sentence stays
\* inactive, so that no call returns an event until a '$' is fed.
C24_IdleIgnores ==
    [][ (~sentence_active /\ 20 <= Char /\ Char <= 126 /\ Char # DOLLAR)
        => /\ ret' = Returned(None)
           /\ char_count' = char_count + 1
           /\ UNCHANGED <<framing, stats, nav, clock>> ]_vars

\* a ',' has just arrived as the second character after the end of a
\* second sentence that was counted clean
C24_Witness ==
    /\ ~sentence_active
    /\ clean_sentences = 2
    /\ IF cur = 0 THEN FALSE ELSE pos = Len(Sentences[cur])
    /\ Len(junk) = 2
    /\ new_char = <<COMMA>>
    /\ gps_segments # << <<>> >>
    /\ crc_xor # 0

\* the segments g with the checksum field, the last one, emptied
WithoutTrailer(g) == [g EXCEPT ![Len(g)] = <<>>]

\* C25 (as stated): the call that completes a checksum-clean supported
\* sentence leaves the navigation state that its decoder leaves when the
\* checksum field holds nothing: no register depends on the trailer.
C25_TrailerNotData ==
    [][ (CompletesClean /\ Decoder(gps_segments'[1]) # "")
        => nav' = Dispatch(nav, WithoutTrailer(gps_segments'), local_offset, clock + 1).nav ]_vars

====
